---- MODULE Spec2Model ----
(***************************************************************************)
(* A model of mm.c: a segregated free-list allocator over one growable     *)
(* arena.  Memory is word-granular: mem maps the byte address of every     *)
(* word the program has written to the value it holds.  The C functions    *)
(* are operators from a heap record to a heap record; the actions apply    *)
(* mm_malloc, mm_free and mm_realloc to the current heap.                  *)
(***************************************************************************)
EXTENDS Integers, Sequences, FiniteSets, TLC

VARIABLES mem,            \* address -> word, for every word written so far
          mem_brk,        \* memlib: first byte past the arena
          heap_listp,     \* mm.c: pointer to the prologue
          beginning_heap, \* mm.c: the bucket heads, 0 = empty
          heap_index,     \* mm.c: the class cursor
          blocks,         \* history: every bp whose header was stamped with a size > 0
          live,           \* caller: live pointer -> requested size
          last,           \* history: the last call, its result and the heap before it
          last2           \* history: the call before the last

vars == <<mem, mem_brk, heap_listp, beginning_heap, heap_index, blocks, live, last, last2>>

-----------------------------------------------------------------------------
(* Constants of mm.c *)

WSIZE == 8
DSIZE == 2 * WSIZE
CHUNKSIZE == 4096
NUM_HEAPS == 21
NULL == 0

(* Bounds of the model *)

\* bytes the arena may grow by after mm_init before mem_sbrk fails
MaxGrow == 700
\* pointers the caller holds at once
MaxLive == 2
\* calls made after mm_init
MaxOps == 3
\* bytes of its block the caller writes: the whole payload, or the first
\* MaxFill bytes of a payload longer than that
MaxFill == 4096

\* the classes: the indices of beginning_heap
Classes == 0..(NUM_HEAPS - 1)

\* the indices the code can reach: the array, the word before it and the
\* word after it
BhIndex == (-1)..NUM_HEAPS

\* the capacity of the largest class, 5*WSIZE * (1 << (NUM_HEAPS - 1)): no
\* class has a capacity above the adjusted size of a request this large
Huge == 5 * WSIZE * (2 ^ (NUM_HEAPS - 1))

\* sizes the caller asks mm_malloc for (bytes): 1 splits a block, 100 takes
\* a whole block, 400 finds no block and grows the arena
ReqSizes == {1, 100, 400, Huge}

\* sizes the caller asks mm_realloc for (bytes)
ReallocSizes == {400, Huge}

-----------------------------------------------------------------------------
(* Integer conversions *)

Pow2(n) == 2 ^ n

\* Every size and address of the model is below 2^31 in absolute value: an
\* (int) cast of it changes nothing, and the only size_t results that wrap
\* are differences below zero, kept as negative integers.

\* a >= b for the size_t difference a = x - y: a negative x - y wraps to a
\* value near 2^64, which is above any b of the model
UnsignedGe(diff, b) == diff < 0 \/ diff >= b

Min(a, b) == IF a < b THEN a ELSE b

-----------------------------------------------------------------------------
(* Words and boundary tags *)

PACK(size, alloc) == (size \div 2) * 2 + (IF size % 2 = 1 \/ alloc = 1 THEN 1 ELSE 0)

\* a word never written reads as 0: mm.c reads the tags and links it wrote,
\* and memcpy copies whatever a payload holds
GET(m, p) == IF p \in DOMAIN m THEN m[p] ELSE 0

PUT(m, p, val) == (p :> val) @@ m

GET_SIZE(m, p) == GET(m, p) - (GET(m, p) % WSIZE)

GET_ALLOC(m, p) == GET(m, p) % 2

HDRP(bp) == bp - WSIZE

FTRP(m, bp) == bp + GET_SIZE(m, HDRP(bp)) - DSIZE

NEXT_BLKP(m, bp) == bp + GET_SIZE(m, bp - WSIZE)

PREV_BLKP(m, bp) == bp - GET_SIZE(m, bp - DSIZE)

NEXT_PTR(m, bp) == FTRP(m, bp) - WSIZE

PREV_PTR(m, bp) == FTRP(m, bp) - 2 * WSIZE

-----------------------------------------------------------------------------
(* memlib: the arena *)

mem_start_brk == 2 * DSIZE

\* what mm_init asks of the arena: 5 words, then one chunk per class i with
\* CHUNKSIZE >= 5 * 2^i
InitBytes == 5 * WSIZE + 10 * CHUNKSIZE

mem_max_addr == mem_start_brk + InitBytes + MaxGrow

\* mem_sbrk(incr) succeeds iff the arena stays within mem_max_addr
mem_sbrk_ok(h, incr) == incr >= 0 /\ h.brk + incr <= mem_max_addr

\* the heap after a successful mem_sbrk(incr); the old break is the result
mem_sbrk(h, incr) == [h EXCEPT !.brk = h.brk + incr, !.asked = Append(h.asked, incr)]

\* the heap after a failed mem_sbrk(incr)
mem_sbrk_fail(h, incr) == [h EXCEPT !.asked = Append(h.asked, incr)]

-----------------------------------------------------------------------------
(* The heap record the C functions work on:                                *)
(*   mem, brk, listp = heap_listp, bh = beginning_heap, hi = heap_index,   *)
(*   blocks (history), asked = the mem_sbrk requests of the current call,  *)
(*   used = the indices at which the current call has read or written      *)
(*   beginning_heap.                                                       *)
(* Sizes are size_t in mm.c.  A difference that wraps below zero is kept   *)
(* as the negative integer congruent to it modulo 2^64: sums, differences, *)
(* PACK and GET_SIZE agree with the wrapped arithmetic, and an (int) cast  *)
(* of it is that negative integer.                                         *)

\* statement sequencing: the value of F at the value of e, e evaluated once
Let(e, F(_)) == CHOOSE out \in {F(v) : v \in {e}} : TRUE

\* PUT(HDRP(bp), PACK(size, alloc)); PUT(FTRP(bp), PACK(size, alloc))
Stamp(h, bp, size, alloc) ==
    Let(PUT(h.mem, HDRP(bp), PACK(size, alloc)), LAMBDA m1 :
        [h EXCEPT !.mem = PUT(m1, FTRP(m1, bp), PACK(size, alloc)),
                  !.blocks = IF size # 0 THEN h.blocks \cup {bp} ELSE h.blocks])

\* PUT(HDRP(NEXT_BLKP(bp)), PACK(0, 1)): the new epilogue header
StampEpilogue(h, bp) ==
    [h EXCEPT !.mem = PUT(h.mem, HDRP(NEXT_BLKP(h.mem, bp)), PACK(0, 1))]

\* push bp on the head of bucket i:
\*   PUT(PREV_PTR(bp), 0); PUT(NEXT_PTR(bp), beginning_heap[i]);
\*   if (beginning_heap[i]) PUT(PREV_PTR(beginning_heap[i]), bp);
\*   beginning_heap[i] = bp;
PushHead(h, i, bp) ==
    Let(PUT(h.mem, PREV_PTR(h.mem, bp), 0), LAMBDA m1 :
    Let(PUT(m1, NEXT_PTR(m1, bp), h.bh[i]), LAMBDA m2 :
        [h EXCEPT !.mem = IF h.bh[i] # 0 THEN PUT(m2, PREV_PTR(m2, h.bh[i]), bp) ELSE m2,
                  !.bh[i] = bp,
                  !.used = h.used \cup {i}]))

\* the inner loop of init_heap: carve blocks of block_size off the chunk at bp
\* and push each on the head of bucket i
RECURSIVE init_heap_carve(_, _, _, _, _, _)
init_heap_carve(h, i, bp, block_size, j, n) ==
    IF j >= n THEN [h |-> h, bp |-> bp]
    ELSE Let(PushHead(Stamp(h, bp, block_size, 0), i, bp), LAMBDA h1 :
             init_heap_carve(h1, i, NEXT_BLKP(h1.mem, bp), block_size, j + 1, n))

\* the outer loop of init_heap: one mem_sbrk(size) per class i with
\* size >= 5 << i, stamped as one free block and then carved
RECURSIVE init_heap_loop(_, _, _, _, _)
init_heap_loop(h, i, words, size, bp) ==
    IF i >= NUM_HEAPS \/ ~(size >= 5 * Pow2(i)) THEN [h |-> h, ret |-> bp]
    ELSE IF ~mem_sbrk_ok(h, size) THEN [h |-> mem_sbrk_fail(h, size), ret |-> NULL]
    ELSE Let(StampEpilogue(Stamp(mem_sbrk(h, size), h.brk, size, 0), h.brk), LAMBDA h1 :
         Let((5 * Pow2(i)) * WSIZE, LAMBDA block_size :
         Let(init_heap_carve(h1, i, h.brk, block_size, 0, words \div block_size), LAMBDA r :
             init_heap_loop(r.h, i + 1, words, size, r.bp))))

init_heap(h, words) ==
    init_heap_loop([h EXCEPT !.bh = [i \in BhIndex |-> IF i \in Classes THEN 0 ELSE h.bh[i]],
                             !.used = h.used \cup Classes],
                   0, words,
                   IF words % 2 = 1 THEN (words + 1) * WSIZE ELSE words * WSIZE,
                   NULL)

\* the arena before mm_init
EmptyHeap ==
    [mem |-> <<>>, brk |-> mem_start_brk, listp |-> NULL,
     bh |-> [i \in BhIndex |-> 0], hi |-> 0, blocks |-> {}, asked |-> <<>>,
     used |-> {}]

\* mm_init on an empty arena whose mem_sbrk calls succeed
mm_init ==
    Let(mem_sbrk(EmptyHeap, 5 * WSIZE), LAMBDA h1 :
    Let(EmptyHeap.brk, LAMBDA base :
    Let(PUT(h1.mem, base, 0), LAMBDA m1 :
    Let(PUT(m1, base + 1 * WSIZE, PACK(WSIZE, 1)), LAMBDA m2 :
    Let(PUT(m2, base + 2 * WSIZE, PACK(WSIZE, 1)), LAMBDA m3 :
    Let(PUT(m3, base + 3 * WSIZE, PACK(0, 1)), LAMBDA m4 :
        init_heap([h1 EXCEPT !.mem = m4, !.listp = base + 2 * WSIZE],
                  CHUNKSIZE \div WSIZE).h))))))

-----------------------------------------------------------------------------
(* Size classes *)

\* the adjusted block size mm_malloc computes for a request
AdjustedSize(size) ==
    IF size <= WSIZE THEN 5 * WSIZE
    ELSE WSIZE * (((size + 2 * DSIZE) + (WSIZE - 1)) \div WSIZE)

\* (int)(5*WSIZE * (1 << i))
ClassCap(i) == 5 * WSIZE * Pow2(i)

\* the value of i when the loop
\*   for (i = 0; i < NUM_HEAPS; i++) if (ClassCap(i) > (int)n) break;
\* ends: the first class whose capacity exceeds n, NUM_HEAPS when none does
FirstClassAbove(n) ==
    Let({i \in 0..(NUM_HEAPS - 1) : ClassCap(i) > n}, LAMBDA S :
        IF S = {} THEN NUM_HEAPS ELSE CHOOSE i \in S : \A k \in S : i <= k)

-----------------------------------------------------------------------------
(* Placement *)

\* scan beginning_heap upward from the cursor; the first non-zero word is
\* the fit, and the cursor moves to its index
segregated_first_fit(h, asize) ==
    Let({i \in h.hi..(NUM_HEAPS - 1) : h.bh[i] # 0}, LAMBDA S :
        IF S = {}
        THEN [h |-> [h EXCEPT !.used = h.used \cup (h.hi..(NUM_HEAPS - 1))], ret |-> NULL]
        ELSE Let(CHOOSE i \in S : \A k \in S : i <= k, LAMBDA i :
                 [h |-> [h EXCEPT !.hi = i, !.used = h.used \cup (h.hi..i)],
                  ret |-> h.bh[i]]))

find_fit(h, asize) == segregated_first_fit(h, asize)

\* the first half of place: take bp off the head of bucket heap_index
place_unlink(h, bp) ==
    Let(GET(h.mem, NEXT_PTR(h.mem, bp)), LAMBDA next_ptr :
        IF bp = h.bh[h.hi]
        THEN [h EXCEPT !.bh[h.hi] = next_ptr,
                       !.mem = IF next_ptr # 0
                               THEN PUT(h.mem, PREV_PTR(h.mem, next_ptr), 0)
                               ELSE h.mem,
                       !.used = h.used \cup {h.hi}]
        ELSE [h EXCEPT !.used = h.used \cup {h.hi}])

\* the second half of place: split when the leftover is at least 5 words.
\* The remainder's links are written against bucket i, the class of asize,
\* but the head of bucket i is left as it was (the code assigns the head to
\* its local next_blk, not next_blk to the head).
place_split(h, bp, asize) ==
    Let(GET_SIZE(h.mem, HDRP(bp)), LAMBDA csize :
        IF UnsignedGe(csize - asize, 5 * WSIZE)
        THEN Let(Stamp(h, bp, asize, 1), LAMBDA h1 :
             Let(NEXT_BLKP(h1.mem, bp), LAMBDA next_blk :
             Let(Stamp(h1, next_blk, csize - asize, 0), LAMBDA h2 :
             Let(FirstClassAbove(asize), LAMBDA i :
             Let(PUT(h2.mem, NEXT_PTR(h2.mem, next_blk), h2.bh[i]), LAMBDA m1 :
                 [h2 EXCEPT !.mem = IF h2.bh[i] # 0
                                    THEN PUT(m1, PREV_PTR(m1, h2.bh[i]), next_blk)
                                    ELSE m1,
                            !.used = h2.used \cup {i}])))))
        ELSE Stamp(h, bp, csize, 1))

place(h, bp, asize) == place_split(place_unlink(h, bp), bp, asize)

\* grow the arena by an even number of words, stamp the new free block and
\* the epilogue, and push the block on the head of bucket heap_index
extend_heap(h, words) ==
    Let(IF words % 2 = 1 THEN (words + 1) * WSIZE ELSE words * WSIZE, LAMBDA size :
        IF ~mem_sbrk_ok(h, size) THEN [h |-> mem_sbrk_fail(h, size), ret |-> NULL]
        ELSE [h |-> PushHead(StampEpilogue(Stamp(mem_sbrk(h, size), h.brk, size, 0),
                                           h.brk),
                             h.hi, h.brk),
              ret |-> h.brk])

-----------------------------------------------------------------------------
(* The allocator API *)

\* mm_malloc once find_fit has found nothing: grow the arena and place
mm_malloc_extend(h, asize, extendsize) ==
    Let(extend_heap(h, extendsize \div WSIZE), LAMBDA ext :
        IF ext.ret = NULL THEN [h |-> ext.h, ret |-> NULL]
        ELSE [h |-> place(ext.h, ext.ret, asize), ret |-> ext.ret])

mm_malloc(h, size) ==
    IF size = 0 THEN [h |-> [h EXCEPT !.hi = -1], ret |-> NULL]
    ELSE Let(AdjustedSize(size), LAMBDA asize :
         Let(FirstClassAbove(asize), LAMBDA i :
         Let(find_fit([h EXCEPT !.hi = IF i < NUM_HEAPS THEN i ELSE -1], asize), LAMBDA fit :
             IF fit.ret # NULL
             THEN [h |-> place(fit.h, fit.ret, asize), ret |-> fit.ret]
             ELSE mm_malloc_extend(fit.h, asize,
                                   IF i < NUM_HEAPS THEN 5 * WSIZE * Pow2(i) ELSE asize))))

\* the bucket mm_free picks: one below the first class whose capacity exceeds
\* the block's size, -1 when no class does
free_index(size) ==
    Let(FirstClassAbove(size), LAMBDA i : IF i < NUM_HEAPS THEN i - 1 ELSE -1)

\* mm_free without the test for a null pointer
mm_free_NullNotIgnored(h, bp) ==
    Let(GET_SIZE(h.mem, HDRP(bp)), LAMBDA size :
    Let(free_index(size), LAMBDA i :
        PushHead([Stamp(h, bp, size, 0) EXCEPT !.hi = i], i, bp)))

\* mm_free: clear the allocated bit and push the block on the head of its
\* bucket; coalesce is not called
mm_free(h, bp) ==
    IF bp = NULL THEN [h EXCEPT !.hi = -1]
    ELSE Let(GET_SIZE(h.mem, HDRP(bp)), LAMBDA size :
         Let(free_index(size), LAMBDA i :
             PushHead([Stamp(h, bp, size, 0) EXCEPT !.hi = i], i, bp)))

\* memcpy(dst, src, n) on word-granular memory: every word that holds one of
\* the n bytes is copied whole
memcpy(m, dst, src, n) ==
    [x \in {dst + k * WSIZE : k \in 0..(((n + WSIZE - 1) \div WSIZE) - 1)} |->
        GET(m, src + (x - dst))] @@ m

\* the length mm_realloc passes to memcpy
realloc_copy_len(h, ptr, size) ==
    Let(GET_SIZE(h.mem, HDRP(ptr)), LAMBDA oldsize :
        IF size < oldsize THEN size ELSE oldsize)

\* the end of mm_realloc that releases the old block also when mm_malloc failed
mm_realloc_copy_FreesOnFailure(r, ptr, size) ==
    IF r.ret = NULL THEN [h |-> mm_free(r.h, ptr), ret |-> NULL, copied |-> 0]
    ELSE Let(realloc_copy_len(r.h, ptr, size), LAMBDA n :
             [h |-> mm_free([r.h EXCEPT !.mem = memcpy(r.h.mem, r.ret, ptr, n)], ptr),
              ret |-> r.ret, copied |-> n])

\* the end of mm_realloc, r the result of mm_malloc(size): copy and free
mm_realloc_copy(r, ptr, size) ==
    IF r.ret = NULL THEN [h |-> r.h, ret |-> NULL, copied |-> 0]
    ELSE Let(realloc_copy_len(r.h, ptr, size), LAMBDA n :
             [h |-> mm_free([r.h EXCEPT !.mem = memcpy(r.h.mem, r.ret, ptr, n)], ptr),
              ret |-> r.ret, copied |-> n])

\* mm_realloc that returns NULL for size 0 without releasing the block
mm_realloc_ZeroKeepsBlock(h, ptr, size) ==
    IF size = 0 THEN [h |-> h, ret |-> NULL, copied |-> 0]
    ELSE Let(mm_malloc(h, size), LAMBDA r :
             IF ptr = NULL THEN [h |-> r.h, ret |-> r.ret, copied |-> 0]
             ELSE mm_realloc_copy(r, ptr, size))

mm_realloc(h, ptr, size) ==
    IF size = 0 THEN [h |-> mm_free(h, ptr), ret |-> NULL, copied |-> 0]
    ELSE Let(mm_malloc(h, size), LAMBDA r :
             IF ptr = NULL THEN [h |-> r.h, ret |-> r.ret, copied |-> 0]
             ELSE mm_realloc_copy(r, ptr, size))

-----------------------------------------------------------------------------
(* The state machine *)

\* the current heap as a record, with an empty log of mem_sbrk requests
Heap == [mem |-> mem, brk |-> mem_brk, listp |-> heap_listp, bh |-> beginning_heap,
         hi |-> heap_index, blocks |-> blocks, asked |-> <<>>, used |-> {}]

NoCall == [op |-> "init", ptr |-> NULL, size |-> 0, ret |-> NULL, copied |-> 0,
           asked |-> <<>>, used |-> {}, n |-> 0,
           pre |-> [mem |-> <<>>, brk |-> 0, bh |-> <<>>, blocks |-> {}, live |-> <<>>]]

Pre == [mem |-> mem, brk |-> mem_brk, bh |-> beginning_heap, blocks |-> blocks,
        live |-> live]

Call(op, ptr, size, ret, copied, h) ==
    [op |-> op, ptr |-> ptr, size |-> size, ret |-> ret, copied |-> copied,
     asked |-> h.asked, used |-> h.used, n |-> last.n + 1, pre |-> Pre]

Install(h) ==
    /\ mem' = h.mem
    /\ mem_brk' = h.brk
    /\ heap_listp' = h.listp
    /\ beginning_heap' = h.bh
    /\ heap_index' = h.hi
    /\ blocks' = h.blocks

\* beginning_heap[-1] and beginning_heap[NUM_HEAPS] are words of the data
\* segment next to the array.  What they hold depends on the build: padding,
\* which is zero, or another static of mm.c (heap_listp, last_bp), which
\* holds the prologue pointer once mm_init has run.
OutsideWords(h) == {NULL, h.listp}

Init ==
    \E h \in {mm_init} : \E below, above \in OutsideWords(h) :
        /\ mem = h.mem
        /\ mem_brk = h.brk
        /\ heap_listp = h.listp
        /\ beginning_heap = [h.bh EXCEPT ![-1] = below, ![NUM_HEAPS] = above]
        /\ heap_index = h.hi
        /\ blocks = h.blocks
        /\ live = <<>>
        /\ last = [NoCall EXCEPT !.asked = h.asked, !.used = h.used]
        /\ last2 = NoCall

\* live with p removed
Drop(f, p) == [x \in (DOMAIN f) \ {p} |-> f[x]]

\* live with p -> size added
Add(f, p, size) == (p :> size) @@ f

\* the caller calls mm_malloc(size)
Malloc(size) ==
    /\ last.n < MaxOps
    /\ Cardinality(DOMAIN live) < MaxLive
    /\ \E r \in {mm_malloc(Heap, size)} :
           /\ Install(r.h)
           /\ live' = IF r.ret # NULL THEN Add(live, r.ret, size) ELSE live
           /\ last' = Call("malloc", NULL, size, r.ret, 0, r.h)
           /\ last2' = last

\* the caller calls mm_free(p), p a live pointer or NULL
Free(p) ==
    /\ last.n < MaxOps
    /\ \E h \in {mm_free(Heap, p)} :
           /\ Install(h)
           /\ live' = Drop(live, p)
           /\ last' = Call("free", p, 0, NULL, 0, h)
           /\ last2' = last

\* the caller calls mm_realloc(p, size), p a live pointer or NULL; the
\* call that would copy a whole payload of Huge bytes is left out
Realloc(p, size) ==
    /\ last.n < MaxOps
    /\ ~(p # NULL /\ size = Huge /\ live[p] = Huge)
    /\ p = NULL => Cardinality(DOMAIN live) < MaxLive
    /\ \E r \in {mm_realloc(Heap, p, size)} :
           /\ Install(r.h)
           /\ live' = IF size = 0 THEN Drop(live, p)
                      ELSE IF r.ret = NULL THEN live
                      ELSE Add(Drop(live, p), r.ret, size)
           /\ last' = Call("realloc", p, size, r.ret, r.copied, r.h)
           /\ last2' = last

\* the data the caller stores in word k of the payload at p
Pattern(p, k) == p + k * WSIZE + 1

\* the caller fills the block it has just been given with its data
Fill ==
    /\ last.op \in {"malloc", "realloc"}
    /\ last.ret # NULL
    /\ last.ret \in DOMAIN live
    /\ GET(mem, last.ret) # Pattern(last.ret, 0)
    /\ mem' = [x \in {last.ret + k * WSIZE :
                        k \in 0..(((Min(live[last.ret], MaxFill) + WSIZE - 1)
                                      \div WSIZE) - 1)} |->
                  Pattern(last.ret, (x - last.ret) \div WSIZE)] @@ mem
    /\ UNCHANGED <<mem_brk, heap_listp, beginning_heap, heap_index, blocks, live,
                   last, last2>>

Next ==
    \/ \E size \in ReqSizes \cup {0} : Malloc(size)
    \/ \E p \in (DOMAIN live) \cup {NULL} : Free(p)
    \/ \E p \in (DOMAIN live) \cup {NULL}, size \in ReallocSizes \cup {0} : Realloc(p, size)
    \/ Fill

Spec == Init /\ [][Next]_vars

-----------------------------------------------------------------------------
(* What the claims speak of *)

\* the nodes reached from head bp by following next links, at most fuel of them
RECURSIVE ListFrom(_, _, _)
ListFrom(m, bp, fuel) ==
    IF bp = 0 \/ fuel = 0 THEN <<>>
    ELSE <<bp>> \o ListFrom(m, GET(m, NEXT_PTR(m, bp)), fuel - 1)

\* bucket i of a heap with memory m, heads bh and stamped blocks bs; a list
\* longer than the number of blocks shows a cycle
BucketOf(m, bh, bs, i) == ListFrom(m, bh[i], Cardinality(bs) + 1)

Bucket(i) == BucketOf(mem, beginning_heap, blocks, i)

RECURSIVE ListedFrom(_)
ListedFrom(i) == IF i >= NUM_HEAPS THEN <<>> ELSE Bucket(i) \o ListedFrom(i + 1)

\* every bucket list, one after the other: a block occurs in it once for
\* every time it is reached from a bucket head
Listed == ListedFrom(0)

\* how many times bp occurs in the sequence s
Occurrences(s, bp) == Cardinality({k \in 1..Len(s) : s[k] = bp})

IsFree(bp) == GET_ALLOC(mem, HDRP(bp)) = 0

RECURSIVE SumSizes(_, _)
SumSizes(m, s) ==
    IF s = <<>> THEN 0 ELSE GET_SIZE(m, HDRP(Head(s))) + SumSizes(m, Tail(s))

RECURSIVE FreeBytesFrom(_, _, _, _)
FreeBytesFrom(m, bh, bs, i) ==
    IF i >= NUM_HEAPS THEN 0
    ELSE SumSizes(m, BucketOf(m, bh, bs, i)) + FreeBytesFrom(m, bh, bs, i + 1)

\* the bytes held in the registry
FreeBytes(m, bh, bs) == FreeBytesFrom(m, bh, bs, 0)

\* the block boundaries: every stamped block with its current size
Layout(m, bs) == {<<bp, GET_SIZE(m, HDRP(bp))>> : bp \in bs}

\* address-order traversal as mm.c writes it:
\*   for (bp = heap_listp; GET_SIZE(HDRP(bp)) > 0; bp = NEXT_BLKP(bp))
RECURSIVE AddrWalkFrom(_, _, _)
AddrWalkFrom(m, bp, fuel) ==
    IF GET_SIZE(m, HDRP(bp)) = 0 \/ fuel = 0 THEN <<>>
    ELSE <<bp>> \o AddrWalkFrom(m, NEXT_BLKP(m, bp), fuel - 1)

AddrWalk == AddrWalkFrom(mem, heap_listp, Cardinality(blocks) + 3)

\* the block pointer at which that traversal stops
AddrWalkEnd == heap_listp + SumSizes(mem, AddrWalk)

-----------------------------------------------------------------------------
(* C1: after any release (mm_free of a block) returns, no two blocks that  *)
(* are consecutive in address order are both free.                         *)
NoAdjacentFreeAfterRelease ==
    (last.op = "free" /\ last.ptr # NULL) =>
        \A bp \in blocks :
            ~(/\ IsFree(bp)
              /\ NEXT_BLKP(mem, bp) \in blocks
              /\ IsFree(NEXT_BLKP(mem, bp)))

(* C2: every block reachable from a bucket head has its allocated bit      *)
(* clear and is reachable from exactly one bucket, once.                   *)
RegistryMembersFree ==
    LET all == Listed
    IN  /\ \A k \in 1..Len(all) : IsFree(all[k])
        /\ Cardinality({all[k] : k \in 1..Len(all)}) = Len(all)

(* C3: every free block of the arena (header allocated bit clear) is a     *)
(* member of exactly one bucket list.                                      *)
EveryFreeBlockListed ==
    LET all == Listed
    IN  \A bp \in blocks : IsFree(bp) => Occurrences(all, bp) = 1

(* C4: every block, allocated or free, has a header word equal to its      *)
(* footer word.  The blocks are every block the allocator has stamped and  *)
(* every block the address-order traversal finds.                          *)
HeaderEqualsFooter ==
    \A bp \in blocks \cup {AddrWalk[k] : k \in 1..Len(AddrWalk)} :
        /\ FTRP(mem, bp) \in DOMAIN mem
        /\ GET(mem, HDRP(bp)) = GET(mem, FTRP(mem, bp))

(* C5: conservation: the blocks found by address-order traversal tile the  *)
(* arena: the traversal ends at the zero-size allocated epilogue at the    *)
(* current arena end, and the block sizes, with the pad before the         *)
(* prologue and the epilogue word, add up to the bytes mem_sbrk granted.   *)
Conservation ==
    /\ GET(mem, HDRP(AddrWalkEnd)) = PACK(0, 1)
    /\ HDRP(AddrWalkEnd) = mem_brk - WSIZE
    /\ SumSizes(mem, AddrWalk) + (HDRP(heap_listp) - mem_start_brk) + WSIZE
          = mem_brk - mem_start_brk

\* what find_fit returns for a request of size bytes made in the current state
FitFor(size) ==
    LET asize == AdjustedSize(size)
        i == FirstClassAbove(asize)
    IN  find_fit([Heap EXCEPT !.hi = IF i < NUM_HEAPS THEN i ELSE -1], asize).ret

(* C6: every successful allocate(size), size > 0, returns a block of at    *)
(* least the adjusted size, so of at least size bytes of payload, all of   *)
(* them in the arena; and in every state the bucket head find_fit returns  *)
(* for a request, with no size check, is at least the adjusted size.       *)
FitIsLargeEnough ==
    /\ (last.op = "malloc" /\ last.ret # NULL) =>
          /\ GET_SIZE(mem, HDRP(last.ret)) >= AdjustedSize(last.size)
          /\ GET_SIZE(mem, HDRP(last.ret)) - DSIZE >= last.size
          /\ last.ret + last.size <= mem_brk
    /\ \A size \in ReqSizes :
          FitFor(size) # NULL =>
              GET_SIZE(mem, HDRP(FitFor(size))) >= AdjustedSize(size)

(* C7: every non-null pointer allocate returns is a multiple of DSIZE,     *)
(* the arena base being a multiple of DSIZE.                               *)
MallocIsDoubleWordAligned ==
    (mem_start_brk % DSIZE = 0 /\ last.op = "malloc" /\ last.ret # NULL) =>
        last.ret % DSIZE = 0

(* C8: immediate reuse: when P1 = allocate(n) succeeded and release(P1)    *)
(* followed it, the next call allocate(n) returns P1 and does not grow     *)
(* the arena.                                                              *)
ImmediateReuse ==
    [][(/\ last2.op = "malloc" /\ last2.ret # NULL
        /\ last.op = "free" /\ last.ptr = last2.ret
        /\ last'.n = last.n + 1
        /\ last'.op = "malloc" /\ last'.size = last2.size)
       => (last'.ret = last2.ret /\ mem_brk' = mem_brk)]_vars

(* C9: round trip: allocate(n) that did not grow the arena, followed at    *)
(* once by release of its result, restores the free bytes held in the      *)
(* registry and the block boundaries that were there before the allocate.  *)
RoundTrip ==
    (/\ last2.op = "malloc" /\ last2.ret # NULL /\ last2.asked = <<>>
     /\ last.op = "free" /\ last.ptr = last2.ret)
    => /\ FreeBytes(mem, beginning_heap, blocks)
            = FreeBytes(last2.pre.mem, last2.pre.bh, last2.pre.blocks)
       /\ Layout(mem, blocks) = Layout(last2.pre.mem, last2.pre.blocks)

(* C10: a successful reallocate(ptr, size), ptr live and size > 0, returns *)
(* a fresh block whose first min(old payload size, size) bytes are those   *)
(* of the old payload, copies exactly that many bytes, and releases the    *)
(* old block.                                                              *)
ReallocCopiesPayload ==
    (last.op = "realloc" /\ last.ptr # NULL /\ last.size > 0 /\ last.ret # NULL) =>
        LET oldpayload == GET_SIZE(last.pre.mem, HDRP(last.ptr)) - DSIZE
            n == Min(oldpayload, last.size)
        IN  /\ last.ret # last.ptr
            /\ last.ret \notin DOMAIN last.pre.live
            /\ GET_ALLOC(mem, HDRP(last.ret)) = 1
            /\ \A k \in 0..((n \div WSIZE) - 1) :
                  GET(mem, last.ret + k * WSIZE) = GET(last.pre.mem, last.ptr + k * WSIZE)
            /\ last.copied = n
            /\ IsFree(last.ptr)
            /\ last.ptr \notin DOMAIN live

(* C11: allocate(0) returns null and release(null) returns, and each      *)
(* leaves the arena bounds, every word of the heap (headers, footers and   *)
(* links) and every bucket head as they were before the call.              *)
SpuriousCallsChangeNothing ==
    ((last.op = "malloc" /\ last.size = 0) \/ (last.op = "free" /\ last.ptr = NULL))
    => /\ last.ret = NULL
       /\ last.asked = <<>>
       /\ mem_brk = last.pre.brk
       /\ mem = last.pre.mem
       /\ beginning_heap = last.pre.bh
       /\ blocks = last.pre.blocks

\* release(null) and then allocate(0) were called with a block handed out
SpuriousCallsWitness ==
    /\ last.op = "malloc" /\ last.size = 0
    /\ last2.op = "free" /\ last2.ptr = NULL
    /\ DOMAIN live # {}

\* the next state holds the heap h; heap_listp is set by mm_init only
HeapAfter(h) ==
    /\ mem' = h.mem
    /\ mem_brk' = h.brk
    /\ beginning_heap' = h.bh
    /\ heap_index' = h.hi
    /\ blocks' = h.blocks

(* C12: reallocate(ptr, 0) changes the heap exactly as release(ptr) does   *)
(* and returns null; reallocate(null, size) changes the heap exactly as    *)
(* allocate(size) does and returns what it returns.                        *)
ReallocDegenerateCases ==
    [][(last'.n = last.n + 1 /\ last'.op = "realloc")
       => /\ last'.size = 0 =>
               /\ last'.ret = NULL
               /\ \E h \in {mm_free(Heap, last'.ptr)} :
                     HeapAfter(h) /\ last'.asked = h.asked
          /\ (last'.size # 0 /\ last'.ptr = NULL) =>
               \E r \in {mm_malloc(Heap, last'.size)} :
                     HeapAfter(r.h) /\ last'.ret = r.ret /\ last'.asked = r.h.asked]_vars

\* both cases have happened: reallocate(null, size) handed out a block and
\* reallocate(ptr, 0) released it
ReallocDegenerateWitness ==
    /\ last.op = "realloc" /\ last.size = 0 /\ last.ptr # NULL
    /\ last2.op = "realloc" /\ last2.ptr = NULL /\ last2.ret = last.ptr
    /\ IsFree(last.ptr)

(* C13: allocate(size > 0) and reallocate(ptr, size > 0) return null only  *)
(* when mem_sbrk failed in that call, asked once; then the arena bounds,   *)
(* every word of the heap and every bucket head are as before the call,    *)
(* and the block given to reallocate is still live, its header and its     *)
(* payload as they were.                                                   *)
FailureLeavesHeapUntouched ==
    (last.op \in {"malloc", "realloc"} /\ last.size > 0 /\ last.ret = NULL)
    => /\ Len(last.asked) = 1
       /\ ~mem_sbrk_ok([brk |-> last.pre.brk], last.asked[1])
       /\ mem_brk = last.pre.brk
       /\ mem = last.pre.mem
       /\ beginning_heap = last.pre.bh
       /\ blocks = last.pre.blocks
       /\ live = last.pre.live
       /\ (last.op = "realloc" /\ last.ptr # NULL) =>
             /\ last.ptr \in DOMAIN live
             /\ GET(mem, HDRP(last.ptr)) = GET(last.pre.mem, HDRP(last.ptr))
             /\ \A k \in 0..(((Min(live[last.ptr], MaxFill) + WSIZE - 1) \div WSIZE) - 1) :
                   GET(mem, last.ptr + k * WSIZE) = GET(last.pre.mem, last.ptr + k * WSIZE)

\* reallocate of a live block that holds the caller's data failed for want
\* of arena
FailureWitness ==
    /\ last.op = "realloc" /\ last.ptr # NULL /\ last.size > 0 /\ last.ret = NULL
    /\ last.ptr \in DOMAIN live
    /\ GET(mem, last.ptr) = Pattern(last.ptr, 0)

(* C14: every request the allocator makes to mem_sbrk, in mm_init and in  *)
(* every later call, is a multiple of the double-word size.                *)
SbrkRequestsDoubleWord ==
    \A k \in 1..Len(last.asked) : last.asked[k] % DSIZE = 0

\* the blocks at a and b, header to footer, share a byte
Overlap(a, b) ==
    /\ HDRP(a) < HDRP(b) + GET_SIZE(mem, HDRP(b))
    /\ HDRP(b) < HDRP(a) + GET_SIZE(mem, HDRP(a))

(* C15: any two distinct live allocated blocks are disjoint, and no live   *)
(* allocated block overlaps a block that is a member of a bucket list.     *)
LiveBlocksDisjoint ==
    LET all == Listed
    IN  \A p \in DOMAIN live :
           /\ \A q \in DOMAIN live : p # q => ~Overlap(p, q)
           /\ \A k \in 1..Len(all) : ~Overlap(p, all[k])

\* the size of the block the last successful allocate placed its request in:
\* the block find_fit returned, or the block extend_heap made
PlacedIn ==
    IF last.asked = <<>> THEN GET_SIZE(last.pre.mem, HDRP(last.ret)) ELSE last.asked[1]

(* C16: when allocate places a request of adjusted size asize in a block   *)
(* with at least 5 words to spare, the first asize bytes become an         *)
(* allocated block and the rest a free block of the leftover size that is  *)
(* a member of the bucket its own size selects; with less to spare the     *)
(* whole block is allocated.                                               *)
SplitRemainderListed ==
    (last.op = "malloc" /\ last.ret # NULL) =>
        LET asize == AdjustedSize(last.size)
            rest == PlacedIn - asize
            next_blk == last.ret + asize
        IN  IF rest >= 5 * WSIZE
            THEN /\ GET(mem, HDRP(last.ret)) = PACK(asize, 1)
                 /\ GET(mem, HDRP(next_blk)) = PACK(rest, 0)
                 /\ \E i \in {FirstClassAbove(rest), free_index(rest)} \cap Classes :
                       Occurrences(Bucket(i), next_blk) = 1
            ELSE GET(mem, HDRP(last.ret)) = PACK(PlacedIn, 1)

(* C17: every bucket list has symmetric links: the prev link of the head   *)
(* is null, and when the next link of a node a is b, the prev link of b    *)
(* is a.                                                                   *)
SymmetricLinks ==
    \A i \in Classes :
        LET s == Bucket(i)
        IN  /\ beginning_heap[i] # 0 => GET(mem, PREV_PTR(mem, beginning_heap[i])) = 0
            /\ \A k \in 1..(Len(s) - 1) : GET(mem, PREV_PTR(mem, s[k + 1])) = s[k]

(* C18: the bucket a free block was inserted in, at init, on release or on *)
(* arena growth, is the one the rule for requests gives for the block's    *)
(* own size: the smallest class whose capacity exceeds that size.          *)
InsertedByRequestRule ==
    \A i \in Classes :
        LET s == Bucket(i)
        IN  \A k \in 1..Len(s) : i = FirstClassAbove(GET_SIZE(mem, HDRP(s[k])))

(* C19: every index at which a call reads or writes beginning_heap is in   *)
(* 0..NUM_HEAPS-1, also for sizes at or above the capacity of the largest  *)
(* class.                                                                  *)
BucketIndexInRange == last.used \subseteq Classes

(* C20: allocate never takes a block from bucket 0: the block a           *)
(* successful allocate or reallocate returns was not a member of bucket 0  *)
(* before the call.                                                        *)
BucketZeroNeverHandedOut ==
    (last.op \in {"malloc", "realloc"} /\ last.ret # NULL) =>
        LET zero == BucketOf(last.pre.mem, last.pre.bh, last.pre.blocks, 0)
        IN  Occurrences(zero, last.ret) = 0

====
